---- MODULE Spec2Model ----
(***************************************************************************)
(* A model of lili (src/lili/__main__.py): the text <-> code-unit          *)
(* transform of the bytecode editor.  Text is modelled character by        *)
(* character: a line is a sequence of one-character strings, the buffer    *)
(* `src` a sequence of lines.  Line numbers, instruction indexes and       *)
(* cursor positions are 0-based as in the source.                          *)
(***************************************************************************)
EXTENDS Integers, Sequences, FiniteSets, TLC

(***************************************************************************)
(* Bounds of the model.                                                    *)
(***************************************************************************)
\* the longest instruction body of a file the editor is opened on
MaxBody == 3
\* the number of key events of an editing session
MaxKeys == 4
\* the most instructions and the most constants of a disassembled code unit
MaxCode == 2
MaxConsts == 2

VARIABLES
    pc,        \* position of the program: see Init and the actions
    src,       \* Editor.src: the line buffer
    parsed,    \* Editor.parsed: one token sequence per line
    code,      \* Editor.code: constants, names, varnames, freevars, bytecode
    lines,     \* Editor.lines: instruction index -> source line
    offsets,   \* Editor.offsets: source line -> instruction index
    cy, cx,    \* cursor row and column
    vy,        \* viewport origin
    my,        \* screen height given to on_resize
    marks,     \* jump target markers drawn by the last redraw
    exc,       \* the exception that ended the program, or "none"
    nkeys,     \* key events handled so far
    prev,      \* history: self.code as the last update_code found it
    co,        \* the code unit a container holds / that is disassembled
    file,      \* the bytes of the container read_pyc is given
    force,     \* the -f flag
    format     \* Editor.format of a loaded container

vars == <<pc, src, parsed, code, lines, offsets, cy, cx, vy, my, marks, exc,
          nkeys, prev, co, file, force, format>>

(***************************************************************************)
(* Characters and strings.                                                 *)
(***************************************************************************)
\* the regex class [A-Z_]
Upper == {"A", "B", "C", "D", "E", "F", "G", "H", "I", "J", "K", "L", "M",
          "N", "O", "P", "Q", "R", "S", "T", "U", "V", "W", "X", "Y", "Z",
          "_"}
\* the whitespace the model's texts hold (regex \s, str.strip)
Space == {" ", "\t"}
Digit == {"0", "1", "2", "3", "4", "5", "6", "7", "8", "9"}

DigitVal(c) ==
    CASE c = "0" -> 0 [] c = "1" -> 1 [] c = "2" -> 2 [] c = "3" -> 3
      [] c = "4" -> 4 [] c = "5" -> 5 [] c = "6" -> 6 [] c = "7" -> 7
      [] c = "8" -> 8 [] c = "9" -> 9

DigitChar(n) ==
    CASE n = 0 -> "0" [] n = 1 -> "1" [] n = 2 -> "2" [] n = 3 -> "3"
      [] n = 4 -> "4" [] n = 5 -> "5" [] n = 6 -> "6" [] n = 7 -> "7"
      [] n = 8 -> "8" [] n = 9 -> "9"

\* s[a..b] with 1-based inclusive positions, clamped to s as a Python slice is
Sub(s, a, b) ==
    IF (IF a < 1 THEN 1 ELSE a) > (IF b > Len(s) THEN Len(s) ELSE b) THEN <<>>
    ELSE SubSeq(s, IF a < 1 THEN 1 ELSE a, IF b > Len(s) THEN Len(s) ELSE b)

\* the text from 1-based position p to the end: ln[p-1:]
From(s, p) == Sub(s, p, Len(s))

\* the number of characters of class C that s holds from position p on
RECURSIVE Run(_, _, _)
Run(s, p, C) ==
    IF p <= Len(s) /\ s[p] \in C THEN 1 + Run(s, p + 1, C) ELSE 0

\* str.lstrip()
lstrip(s) == From(s, 1 + Run(s, 1, Space))

RECURSIVE rstrip(_)
rstrip(s) ==
    IF s # <<>> /\ s[Len(s)] \in Space THEN rstrip(Sub(s, 1, Len(s) - 1))
    ELSE s

\* str.strip()
strip(s) == rstrip(lstrip(s))

\* str.startswith
startswith(s, c) == s # <<>> /\ s[1] = c

Token(type, value) == [type |-> type, value |-> value]

(***************************************************************************)
(* The regular expressions of Editor.parse.  Each gives the length of the  *)
(* match at position p, 0 for no match.                                    *)
(***************************************************************************)
\* ([A-Z_]+):(.*)? at the start of the line: the length of group 1, 0 if none
SectionRe(ln) ==
    IF /\ Run(ln, 1, Upper) > 0
       /\ Run(ln, 1, Upper) < Len(ln)
       /\ ln[Run(ln, 1, Upper) + 1] = ":"
    THEN Run(ln, 1, Upper)
    ELSE 0

\* [A-Z_]+(?:\s+|\Z)
NameEnd(ln, p, k, w) ==
    IF k > 0 /\ (w > 0 \/ p + k > Len(ln)) THEN k + w ELSE 0

NameRe(ln, p) ==
    NameEnd(ln, p, Run(ln, p, Upper), Run(ln, p + Run(ln, p, Upper), Space))

\* @\s* and %\s*, at a position that holds the marker
MarkerRe(ln, p) == 1 + Run(ln, p + 1, Space)

\* the position of the closing quote q of a string body [^\n'\\]* from p,
\* 0 when a backslash or the end of the line comes first
RECURSIVE CloseQuote(_, _, _)
CloseQuote(ln, p, q) ==
    IF p > Len(ln) \/ ln[p] = "\\" THEN 0
    ELSE IF ln[p] = q THEN p
    ELSE CloseQuote(ln, p + 1, q)

\* tokenize.String, for a literal with no prefix and no backslash
StringRe(ln, p) ==
    IF p <= Len(ln) /\ ln[p] \in {"'", "\""}
    THEN IF CloseQuote(ln, p + 1, ln[p]) = 0 THEN 0
         ELSE CloseQuote(ln, p + 1, ln[p]) - p + 1
    ELSE 0

\* the position of the last "#" at or after p, 0 if none
RECURSIVE LastHash(_, _)

HashOr(ln, p, r) == IF r # 0 THEN r ELSE IF ln[p] = "#" THEN p ELSE 0

LastHash(ln, p) ==
    IF p > Len(ln) THEN 0 ELSE HashOr(ln, p, LastHash(ln, p + 1))

\* .*(?=#)|.* : greedy, so up to the last "#", else the rest of the line
RawRe(ln, p) ==
    IF LastHash(ln, p) # 0 THEN LastHash(ln, p) - p ELSE Len(ln) - p + 1

\* (?:_?[0-9])* from p, after a first digit: the length matched
RECURSIVE MoreDigits(_, _, _)
MoreDigits(ln, p, D) ==
    IF p <= Len(ln) /\ ln[p] \in D THEN 1 + MoreDigits(ln, p + 1, D)
    ELSE IF p + 1 <= Len(ln) /\ ln[p] = "_" /\ ln[p + 1] \in D
         THEN 2 + MoreDigits(ln, p + 2, D)
    ELSE 0

\* tokenize.Intnumber, its decimal alternative:
\* 0(?:_?0)*|[1-9](?:_?[0-9])*
IntnumberRe(ln, p) ==
    IF p > Len(ln) THEN 0
    ELSE IF ln[p] = "0" THEN 1 + MoreDigits(ln, p + 1, {"0"})
    ELSE IF ln[p] \in Digit THEN 1 + MoreDigits(ln, p + 1, Digit)
    ELSE 0

(***************************************************************************)
(* Editor.parse                                                            *)
(***************************************************************************)
\* the tokens of a section line
SectionTokens(ln) ==
    <<Token("section", Sub(ln, 1, SectionRe(ln))), Token("op", <<":">>)>>
    \o (IF From(ln, SectionRe(ln) + 2) # <<>>
        THEN <<Token("field", From(ln, SectionRe(ln) + 2))>>
        ELSE <<>>)

\* the first loop of parse from line i (0-based) with the given body_pos:
\* the header's token sequences and the final body_pos
RECURSIVE ParseHeader(_, _, _)

\* the header line with tokens t, then the lines after it
HeaderLine(t, rest) == [rest EXCEPT !.parsed = <<t>> \o @]

ParseHeader(s, i, body_pos) ==
    IF i >= Len(s) THEN [parsed |-> <<>>, body_pos |-> body_pos]
    ELSE IF SectionRe(s[i + 1]) > 0
    THEN HeaderLine(SectionTokens(s[i + 1]), ParseHeader(s, i + 1, i + 1))
    ELSE IF body_pos # 0 /\ s[i + 1] # <<>> /\ s[i + 1][1] \in Space
    THEN HeaderLine(<<Token("field", s[i + 1])>>,
                    ParseHeader(s, i + 1, body_pos + 1))
    ELSE [parsed |-> <<>>, body_pos |-> body_pos]

\* the while loop of parse over one body line, from 1-based position p
RECURSIVE ScanBody(_, _)

\* line 249-250: a name token of length e
NameToken(ln, p, e) ==
    <<Token("name", Sub(ln, p, p + e - 1))>> \o ScanBody(ln, p + e)

\* lines 252-260: the marker ln[p..q-1] and a const of length c after it
AtTokens(ln, p, q, c) ==
    <<Token("op", Sub(ln, p, q - 1)), Token("const", Sub(ln, q, q + c - 1))>>
    \o ScanBody(ln, q + c)

\* lines 254-260: the length of the const at q, a string (of length s) if
\* tokenize.String matches
ConstLen(ln, q, s) == IF s > 0 THEN s ELSE RawRe(ln, q)

\* lines 262-266: the marker ln[p..q-1] and, if c > 0, a const of length c
PercentTokens(ln, p, q, c) ==
    <<Token("op", Sub(ln, p, q - 1))>>
    \o (IF c > 0 THEN <<Token("const", Sub(ln, q, q + c - 1))>> ELSE <<>>)
    \o ScanBody(ln, q + c)

\* the position after the marker at p
AfterMarker(ln, p) == p + MarkerRe(ln, p)

\* the while loop of parse over one body line, from 1-based position p
ScanBody(ln, p) ==
    IF p > Len(ln) THEN <<>>
    ELSE IF ln[p] = "#" THEN <<Token("comment", From(ln, p))>>
    ELSE IF NameRe(ln, p) > 0 THEN NameToken(ln, p, NameRe(ln, p))
    ELSE IF ln[p] = "@"
    THEN AtTokens(ln, p, AfterMarker(ln, p),
                  ConstLen(ln, AfterMarker(ln, p),
                           StringRe(ln, AfterMarker(ln, p))))
    ELSE IF ln[p] = "%"
    THEN PercentTokens(ln, p, AfterMarker(ln, p),
                       IntnumberRe(ln, AfterMarker(ln, p)))
    ELSE <<Token("unknown", From(ln, p))>>

\* Editor.parse: the value it leaves in self.parsed
\* the second loop of parse (lines 241-271), after header h
ParseBody(s, h) ==
    h.parsed \o [k \in 1..(Len(s) - h.body_pos) |->
                    ScanBody(s[h.body_pos + k], 1)]

\* Editor.parse: the value it leaves in self.parsed
parse(s) == ParseBody(s, ParseHeader(s, 0, 0))

(***************************************************************************)
(* Values: what evaluate returns and the constant pool holds.  A number    *)
(* is the fraction n/d in lowest terms (d = 1 for int and bool); `elts`    *)
(* holds a list's elements or a string's characters; `oid` is the object's *)
(* identity (Python's `is`).                                               *)
(***************************************************************************)
Value(ty, n, d, elts, oid) ==
    [ty |-> ty, n |-> n, d |-> d, elts |-> elts, oid |-> oid]

\* an evaluation that raised; also an operand left at None
Unset == Value("error", 0, 1, <<>>, 0)
\* the singletons None, True, False
NoneV == Value("none", 0, 1, <<>>, -1)
BoolV(b) == Value("bool", IF b THEN 1 ELSE 0, 1, <<>>, IF b THEN -2 ELSE -3)
IntV(n, oid) == Value("int", n, 1, <<>>, oid)
\* the placeholder string "JO BIDEN !!" (lines 130 and 353)
JoBiden(oid) == Value("str", 0, 1, <<"J", "O", " ", "B", "I", "D", "E", "N", " ", "!", "!">>, oid)

RECURSIVE Gcd(_, _)
Gcd(a, b) == IF b = 0 THEN a ELSE Gcd(b, a % b)

Abs(n) == IF n < 0 THEN -n ELSE n

FloatV(n, d, oid) ==
    Value("float", n \div Gcd(Abs(n), d), d \div Gcd(Abs(n), d), <<>>, oid)

Numeric(v) == v.ty \in {"int", "bool", "float"}

\* -v and +v of a number: bool becomes int
Signed(v, sign, oid) ==
    Value(IF v.ty = "float" THEN "float" ELSE "int", sign * v.n, v.d, <<>>, oid)

\* the digits of a literal, underscores skipped, as a number
RECURSIVE DecVal(_)
DecVal(t) ==
    IF t = <<>> THEN 0
    ELSE IF t[Len(t)] = "_" THEN DecVal(Sub(t, 1, Len(t) - 1))
    ELSE 10 * DecVal(Sub(t, 1, Len(t) - 1)) + DigitVal(t[Len(t)])

RECURSIVE Pow10(_)
Pow10(k) == IF k = 0 THEN 1 ELSE 10 * Pow10(k - 1)

\* digit (["_"] digit)* spanning the whole of t
IsDigitPart(t) ==
    t # <<>> /\ t[1] \in Digit /\ 1 + MoreDigits(t, 2, Digit) = Len(t)

\* a decimal integer literal: IntnumberRe spans the whole of t
IsDecInteger(t) == t # <<>> /\ IntnumberRe(t, 1) = Len(t)

\* the position of the first "." of t, 0 if none
RECURSIVE Dot(_, _)
Dot(t, p) ==
    IF p > Len(t) THEN 0 ELSE IF t[p] = "." THEN p ELSE Dot(t, p + 1)

\* a pointfloat literal: [digitpart] "." digitpart | digitpart "."
\* a pointfloat literal with its "." at k: [digitpart] "." digitpart |
\* digitpart "."
PointParts(k, l, r) ==
    /\ k # 0
    /\ l = <<>> \/ IsDigitPart(l)
    /\ r = <<>> \/ IsDigitPart(r)
    /\ l # <<>> \/ r # <<>>

IsPointFloat(t) ==
    PointParts(Dot(t, 1), Sub(t, 1, Dot(t, 1) - 1), From(t, Dot(t, 1) + 1))

\* the float of integer part l and fraction r, q being 10 to the number of
\* digits of r
PointValue(l, r, q, oid) == FloatV(DecVal(l) * q + DecVal(r), q, oid)

PointFloat(t, oid) ==
    PointValue(Sub(t, 1, Dot(t, 1) - 1), From(t, Dot(t, 1) + 1),
               Pow10(Cardinality({j \in (Dot(t, 1) + 1)..Len(t) : t[j] \in Digit})),
               oid)

(***************************************************************************)
(* evaluate (lines 126-163), for the literal forms of the model's texts:   *)
(* decimal integers, point floats, True, False, None, unary + and -, a     *)
(* list of no or one element, a string with no prefix and no backslash,    *)
(* a trailing comment, and the "%" placeholder.  Any other text raises, as Python's parser or  *)
(* the final `raise ValueError` does for every other text over the         *)
(* characters the model's buffers hold.                                    *)
(***************************************************************************)
\* the position of the first "#" of t from p on that is outside a string (q is
\* the quote that is open, "" if none): Python's comment; 0 if none
RECURSIVE CommentAt(_, _, _)
CommentAt(t, p, q) ==
    IF p > Len(t) THEN 0
    ELSE IF q = "" /\ t[p] = "#" THEN p
    ELSE IF q = "" /\ t[p] \in {"'", "\""} THEN CommentAt(t, p + 1, t[p])
    ELSE IF t[p] = q THEN CommentAt(t, p + 1, "")
    ELSE CommentAt(t, p + 1, q)

Uncomment(t) ==
    IF CommentAt(t, 1, "") = 0 THEN t ELSE Sub(t, 1, CommentAt(t, 1, "") - 1)

RECURSIVE EvalExpr(_, _)

\* ast.UnaryOp (lines 144-147) on the value v of the operand
Unary(sign, v, oid) ==
    IF Numeric(v) THEN Signed(v, IF sign = "-" THEN -1 ELSE 1, oid) ELSE Unset

\* ast.List (lines 140-141) of the element whose value is v
ListOf(inner, v, oid) ==
    IF inner = <<>> THEN Value("list", 0, 1, <<>>, oid)
    ELSE IF v.ty = "error" THEN Unset
    ELSE Value("list", 0, 1, <<[v EXCEPT !.oid = 0]>>, oid)

\* the value of the expression t, which has no blank or comment around it
Expr(t, oid) ==
    IF t = <<>> THEN Unset
    ELSE IF IsDecInteger(t) THEN IntV(DecVal(t), oid)
    ELSE IF IsPointFloat(t) THEN PointFloat(t, oid)
    ELSE IF t = <<"T", "r", "u", "e">> THEN BoolV(TRUE)
    ELSE IF t = <<"F", "a", "l", "s", "e">> THEN BoolV(FALSE)
    ELSE IF t = <<"N", "o", "n", "e">> THEN NoneV
    ELSE IF t[1] \in {"-", "+"} THEN Unary(t[1], EvalExpr(From(t, 2), oid), oid)
    ELSE IF t[1] = "[" /\ t[Len(t)] = "]" /\ Len(t) >= 2
    THEN ListOf(strip(Sub(t, 2, Len(t) - 1)),
                EvalExpr(strip(Sub(t, 2, Len(t) - 1)), oid), oid)
    ELSE IF StringRe(t, 1) = Len(t)
    THEN Value("str", 0, 1, Sub(t, 2, Len(t) - 1), oid)
    ELSE Unset

EvalExpr(text, oid) == Expr(strip(Uncomment(text)), oid)

evaluate(n, oid) ==
    IF startswith(n, "%") THEN JoBiden(-4) ELSE EvalExpr(lstrip(n), oid)

(***************************************************************************)
(* eq and idx (lines 77-92)                                                *)
(***************************************************************************)
\* hash() raises TypeError for a list
Hashable(v) == v.ty # "list"

\* hash(): equal numbers hash alike, and CPython gives hash(-1) = hash(-2) = -2
hash(v) ==
    IF Numeric(v)
    THEN IF v.d = 1 THEN <<IF v.n = -1 THEN -2 ELSE v.n>> ELSE <<v.n, v.d>>
    ELSE <<v.ty, v.elts>>

eqIgnoresType(a, b) ==
    \/ a.oid = b.oid
    \/ Hashable(a) /\ Hashable(b) /\ hash(a) = hash(b)

eq(a, b) ==
    \/ a.oid = b.oid
    \/ a.ty = b.ty /\ Hashable(a) /\ hash(a) = hash(b)

\* the index (0-based) of the first entry of s that eq finds equal to x, else -1
First(hits) ==
    IF hits = {} THEN -1 ELSE (CHOOSE i \in hits : \A j \in hits : i <= j) - 1

idx(s, x) == First({i \in 1..Len(s) : eq(x, s[i])})

(***************************************************************************)
(* The opcode table (Python's opcode module, CPython 3.10), for the        *)
(* mnemonics the model's buffers hold.                                     *)
(***************************************************************************)
opmap ==
    (<<"P", "O", "P", "_", "T", "O", "P">> :> 1) @@
    (<<"N", "O", "P">> :> 9) @@
    (<<"I", "N", "P", "L", "A", "C", "E", "_", "P", "O", "W", "E", "R">> :> 67) @@
    (<<"R", "E", "T", "U", "R", "N", "_", "V", "A", "L", "U", "E">> :> 83) @@
    (<<"L", "O", "A", "D", "_", "C", "O", "N", "S", "T">> :> 100) @@
    (<<"L", "O", "A", "D", "_", "N", "A", "M", "E">> :> 101) @@
    (<<"J", "U", "M", "P", "_", "A", "B", "S", "O", "L", "U", "T", "E">> :> 113) @@
    (<<"L", "O", "A", "D", "_", "F", "A", "S", "T">> :> 124) @@
    (<<"L", "O", "A", "D", "_", "D", "E", "R", "E", "F">> :> 136)

\* opcode.opname, the inverse of opmap
opname(op) == CHOOSE m \in DOMAIN opmap : opmap[m] = op

HAVE_ARGUMENT == 90
hasconst == {100}
hasname == {101}
haslocal == {124}
hasfree == {136}
hasjabs == {113}

Range(s) == {s[k] : k \in DOMAIN s}

\* get_scope (lines 68-74): the name of the pool, "none" for None
get_scope(op) ==
    IF op \in hasname THEN "names"
    ELSE IF op \in haslocal THEN "varnames"
    ELSE IF op \in hasfree THEN "freevars"
    ELSE "none"

(***************************************************************************)
(* Editor.update_code (lines 273-370)                                      *)
(***************************************************************************)
\* str.removesuffix(":")
removesuffix(t) ==
    IF t # <<>> /\ t[Len(t)] = ":" THEN Sub(t, 1, Len(t) - 1) ELSE t

\* the number of consecutive lines from line i (0-based) whose first token
\* is a field (the inner loop, lines 288-293)
RECURSIVE FieldRun(_, _)
FieldRun(p, i) ==
    IF i < Len(p) /\ p[i + 1] # <<>> /\ p[i + 1][1].type = "field"
    THEN 1 + FieldRun(p, i + 1)
    ELSE 0

\* the section loop (lines 276-296) from line i: the final i and sections.
\* Running off the end of parsed, or reading tokens[0] of an empty line,
\* raises the IndexError that ends the loop.
RECURSIVE ExtractSections(_, _, _)
ExtractSections(p, i, sections) ==
    IF i >= Len(p) THEN [i |-> i, sections |-> sections]
    ELSE LET tokens == p[i + 1] IN
         IF tokens = <<>> THEN [i |-> i, sections |-> sections]
         ELSE IF tokens[1].type # "section" THEN [i |-> i, sections |-> sections]
         ELSE LET sec == removesuffix(tokens[1].value) IN
              IF Len(tokens) > 2
              THEN [i |-> i + 1,
                    sections |-> (sec :> <<lstrip(tokens[3].value)>>) @@ sections]
              ELSE LET n == FieldRun(p, i + 1)
                       entries == [k \in 1..n |-> lstrip(p[i + 1 + k][1].value)]
                   IN  ExtractSections(p, i + 1 + n, (sec :> entries) @@ sections)

\* PartialCode([], [], []) (line 181) and the five clear() calls (298-302)
EmptyCode ==
    [constants |-> <<>>, names |-> <<>>, varnames |-> <<>>, freevars |-> <<>>,
     bytecode |-> <<>>]

ClearKeepsNames(c) ==
    [c EXCEPT !.constants = <<>>, !.varnames = <<>>, !.freevars = <<>>,
              !.bytecode = <<>>]

Clear(c) ==
    [c EXCEPT !.constants = <<>>, !.names = <<>>, !.varnames = <<>>,
              !.freevars = <<>>, !.bytecode = <<>>]

\* lines 322-325: the index of the constant, i when idx finds it, and
\* appended if idx does not find it
ConstAt(constants, const, i) ==
    IF i = -1
    THEN [pool |-> Append(constants, const), arg |-> Len(constants)]
    ELSE [pool |-> constants, arg |-> i]

ConstRef(constants, const) == ConstAt(constants, const, idx(constants, const))

SymbolRefAlwaysAppends(scope, name) ==
    [pool |-> Append(scope, name), arg |-> Len(scope)]

\* lines 327-330: the index of the symbol, appended if the pool lacks it
SymbolRef(scope, name) ==
    IF name \notin Range(scope)
    THEN [pool |-> Append(scope, name), arg |-> Len(scope)]
    ELSE [pool |-> scope,
          arg |-> (CHOOSE k \in 1..Len(scope) :
                      scope[k] = name /\ \A j \in 1..(k - 1) : scope[j] # name) - 1]

\* lines 322-325 and 327-330: the pool and the operand after the reference r
WithConst(c, r) ==
    [code |-> [c EXCEPT !.constants = r.pool], arg |-> IntV(r.arg, 0)]

WithSymbol(c, scope, r) ==
    [code |-> [c EXCEPT ![scope] = r.pool], arg |-> IntV(r.arg, 0)]

\* lines 319-325: a constant operand, const being evaluate's result; when
\* evaluate raises, arg stays None
ConstOperand(c, const) ==
    IF const.ty = "error" THEN [code |-> c, arg |-> Unset]
    ELSE WithConst(c, ConstRef(c.constants, const))

\* lines 315-342: the operand after marker op with text val, v being
\* evaluate(val)
Operand(c, instr, op, val, v) ==
    IF op[1] = "@" /\ instr \in hasconst THEN ConstOperand(c, v)
    ELSE IF op[1] = "@" /\ get_scope(instr) # "none"
    THEN WithSymbol(c, get_scope(instr),
                    SymbolRef(c[get_scope(instr)], strip(val)))
    ELSE [code |-> c, arg |-> v]

\* lines 310-342: the operand of the instruction of line l (evaluations there
\* make objects of identity l + 1) and the pools after resolving it
Resolve(c, instr, tokens, l) ==
    IF Len(tokens) >= 3 /\ tokens[3].type = "const"
    THEN Operand(c, instr, tokens[2].value, tokens[3].value,
                 evaluate(tokens[3].value, l + 1))
    ELSE [code |-> c, arg |-> IntV(0, 0)]

\* arg is not None and arg in range(256): a float equal to an integer of the
\* range is in it
InRange256(arg) ==
    Numeric(arg) /\ arg.d = 1 /\ arg.n >= 0 /\ arg.n < 256

EmitForgetsOffset(st, instr, arg, l) ==
    IF arg.ty = "float" THEN [st EXCEPT !.exc = "TypeError"]
    ELSE [st EXCEPT !.code.bytecode = @ \o <<instr, arg.n>>,
                    !.lines = (st.bc :> l) @@ @,
                    !.bc = @ + 1]

\* lines 345-348; bytearray.extend raises TypeError for a float and then
\* leaves the bytearray as it was
Emit(st, instr, arg, l) ==
    IF arg.ty = "float" THEN [st EXCEPT !.exc = "TypeError"]
    ELSE [st EXCEPT !.code.bytecode = @ \o <<instr, arg.n>>,
                    !.lines = (st.bc :> l) @@ @,
                    !.offsets = (l :> st.bc) @@ @,
                    !.bc = @ + 1]

\* lines 344-348: the instruction is assembled if its operand r.arg is a
\* byte
Assemble(st, instr, r, l) ==
    IF InRange256(r.arg) THEN Emit([st EXCEPT !.code = r.code], instr, r.arg, l)
    ELSE [st EXCEPT !.code = r.code]

\* lines 309-348 for the mnemonic m
Instruction(st, m, tokens, l) ==
    IF m \notin DOMAIN opmap THEN st
    ELSE Assemble(st, opmap[m], Resolve(st.code, opmap[m], tokens, l), l)

\* one iteration of the body loop (lines 306-348) for line l
BodyLine(st, tokens, l) ==
    IF tokens = <<>> \/ tokens[1].type # "name" THEN st
    ELSE Instruction(st, strip(tokens[1].value), tokens, l)

\* the body loop from line l on; an exception ends it
RECURSIVE BodyLoop(_, _, _)
BodyLoop(st, p, l) ==
    IF l >= Len(p) \/ st.exc # "none" THEN st
    ELSE BodyLoop(BodyLine(st, p[l + 1], l), p, l + 1)

\* lines 351-361: one entry ln of CONSTS, const being evaluate's result
DeclaredConst(constants, ln, const) ==
    IF startswith(ln, "%") THEN Append(constants, JoBiden(-5))
    ELSE IF const.ty = "error" THEN constants
    ELSE IF idx(constants, const) = -1 THEN Append(constants, const)
    ELSE constants

\* lines 350-361: the declared constants, entry k (objects of identity
\* -(10 + k)) on
RECURSIVE DeclaredConsts(_, _, _)
DeclaredConsts(constants, entries, k) ==
    IF k > Len(entries) THEN constants
    ELSE DeclaredConsts(
             DeclaredConst(constants, entries[k], evaluate(entries[k], -(10 + k))),
             entries, k + 1)

\* lines 362-370: a declared symbol section is appended entry by entry
DeclaredSymbols(scope, entries) ==
    scope \o [k \in 1..Len(entries) |-> strip(entries[k])]

Section(sections, sec) ==
    IF sec \in DOMAIN sections THEN sections[sec] ELSE <<>>

\* lines 350-370
DeclaredSections(c, sections) ==
    [c EXCEPT
        !.constants = DeclaredConsts(@, Section(sections, <<"C", "O", "N", "S", "T", "S">>), 1),
        !.names = DeclaredSymbols(@, Section(sections, <<"N", "A", "M", "E", "S">>)),
        !.varnames = DeclaredSymbols(@, Section(sections, <<"V", "A", "R", "N", "A", "M", "E", "S">>)),
        !.freevars = DeclaredSymbols(@, Section(sections, <<"F", "R", "E", "E", "V", "A", "R", "S">>))]

\* lines 298-304: the state the body loop starts in
Cleared(c0) ==
    [code |-> Clear(c0), lines |-> <<>>, offsets |-> <<>>, bc |-> 0,
     exc |-> "none"]

\* lines 350-370 after the body loop ended in st; an exception of the loop
\* leaves update_code before them
Declared(p, x, st) ==
    [parsed |-> p,
     code |-> IF st.exc = "none" THEN DeclaredSections(st.code, x.sections)
              ELSE st.code,
     lines |-> st.lines, offsets |-> st.offsets, exc |-> st.exc]

\* lines 298-370 after the section loop ended in x
Assembled(c0, p, x) == Declared(p, x, BodyLoop(Cleared(c0), p, x.i))

\* lines 275-370 on the parsed lines p
Updated(c0, p) == Assembled(c0, p, ExtractSections(p, 0, <<>>))

\* update_code on buffer s with self.code = c0: what it leaves in parsed,
\* code, lines and offsets, and the exception it raised if any
update_code(c0, s) == Updated(c0, parse(s))

(***************************************************************************)
(* Editor.redraw (lines 372-390).  Of what it draws the model keeps the    *)
(* jump markers: <<row, offset>> for addstr(self.lines[arg], 32,           *)
(* "<< %i" % offset).  self.lines[arg] raises KeyError when arg is no      *)
(* instruction index.                                                      *)
(***************************************************************************)
RECURSIVE RedrawFrom(_, _, _, _, _, _)
RedrawFrom(i, p, offs, c, lns, drawn) ==
    IF i >= Len(p) THEN [marks |-> drawn, exc |-> "none"]
    ELSE IF i \notin DOMAIN offs THEN RedrawFrom(i + 1, p, offs, c, lns, drawn)
    ELSE LET offset == offs[i]
             instr == c.bytecode[offset * 2 + 1]
             arg == c.bytecode[offset * 2 + 2]
         IN  IF instr \notin hasjabs
             THEN RedrawFrom(i + 1, p, offs, c, lns, drawn)
             ELSE IF arg \notin DOMAIN lns
             THEN [marks |-> drawn, exc |-> "KeyError"]
             ELSE RedrawFrom(i + 1, p, offs, c, lns,
                             Append(drawn, <<lns[arg], offset>>))

redraw(p, offs, c, lns) == RedrawFrom(0, p, offs, c, lns, <<>>)

(***************************************************************************)
(* Editor.on_ch (lines 520-586): the edit of each key                      *)
(***************************************************************************)
Lower == <<"a", "b", "c", "d", "e", "f", "g", "h", "i", "j", "k", "l", "m",
           "n", "o", "p", "q", "r", "s", "t", "u", "v", "w", "x", "y", "z">>
Capital == <<"A", "B", "C", "D", "E", "F", "G", "H", "I", "J", "K", "L", "M",
             "N", "O", "P", "Q", "R", "S", "T", "U", "V", "W", "X", "Y", "Z">>

\* str.upper() of one character
upper(c) ==
    IF \E k \in 1..26 : Lower[k] = c
    THEN Capital[CHOOSE k \in 1..26 : Lower[k] = c]
    ELSE c

\* lines 524-531: a printable character typed at the cursor
Printable(s, y, x, c) ==
    LET ln == s[y + 1]
        typed == IF x = 0 \/ (x <= Len(ln) /\ ln[x] \in Upper) THEN upper(c)
                 ELSE c
    IN  [src |-> [s EXCEPT ![y + 1] = Sub(ln, 1, x) \o <<typed>> \o From(ln, x + 1)],
         cy |-> y, cx |-> x + 1]

\* s without its line y (0-based): list.pop(y)
Pop(s, y) == Sub(s, 1, y) \o From(s, y + 2)

\* lines 535-543: backspace, not at the start of the buffer
Backspace(s, y, x) ==
    IF x # 0
    THEN [src |-> [s EXCEPT ![y + 1] = Sub(@, 1, x - 1) \o From(@, x + 1)],
          cy |-> y, cx |-> x - 1]
    ELSE [src |-> Pop([s EXCEPT ![y] = @ \o s[y + 1]], y),
          cy |-> y - 1, cx |-> Len(s[y])]

\* lines 547-549: newline
Newline(s, y, x) ==
    [src |-> Sub(s, 1, y + 1) \o <<<<>>>> \o From(s, y + 2), cy |-> y + 1, cx |-> 0]

\* lines 552-573: the arrow keys
Left(s, y, x) ==
    IF x # 0 THEN [cy |-> y, cx |-> x - 1]
    ELSE IF y # 0 THEN [cy |-> y - 1, cx |-> Len(s[y])]
    ELSE [cy |-> y, cx |-> x]

Right(s, y, x) ==
    IF x < Len(s[y + 1]) THEN [cy |-> y, cx |-> x + 1]
    ELSE IF y < Len(s) - 1 THEN [cy |-> y + 1, cx |-> 0]
    ELSE [cy |-> y, cx |-> x]

UpKeepsColumn(s, y, x) ==
    IF y # 0 THEN [cy |-> y - 1, cx |-> x]
    ELSE [cy |-> y, cx |-> x]

Up(s, y, x) ==
    IF y # 0 THEN [cy |-> y - 1, cx |-> IF x > Len(s[y]) THEN Len(s[y]) ELSE x]
    ELSE [cy |-> y, cx |-> x]

Down(s, y, x) ==
    IF y < Len(s) - 1
    THEN [cy |-> y + 1, cx |-> IF x > Len(s[y + 2]) THEN Len(s[y + 2]) ELSE x]
    ELSE [cy |-> y, cx |-> x]

\* lines 580-583: the viewport follows the cursor row y
Scroll(y, v, rows) ==
    IF y - v > rows - 5 THEN y - rows + 5
    ELSE IF y - v < 2 /\ v > 0 THEN v - 1
    ELSE v

(***************************************************************************)
(* unparse (lines 95-123)                                                  *)
(***************************************************************************)
\* str() of a natural number
RECURSIVE Decimal(_)
Decimal(n) ==
    IF n < 10 THEN <<DigitChar(n)>>
    ELSE Append(Decimal(n \div 10), DigitChar(n % 10))

\* str() of an integer
str(n) == IF n < 0 THEN <<"-">> \o Decimal(-n) ELSE Decimal(n)

\* format(n, "#b")
RECURSIVE Binary(_)
Binary(n) ==
    IF n < 2 THEN <<DigitChar(n)>>
    ELSE Append(Binary(n \div 2), DigitChar(n % 2))

\* repr() of a constant: of an int, a bool, None, a string without quotes or
\* escapes, and a float with at most one decimal (d divides 10)
repr(x) ==
    CASE x.ty = "int" -> str(x.n)
      [] x.ty = "bool" -> IF x.n = 1 THEN <<"T", "r", "u", "e">> ELSE <<"F", "a", "l", "s", "e">>
      [] x.ty = "none" -> <<"N", "o", "n", "e">>
      [] x.ty = "str" -> <<"'">> \o x.elts \o <<"'">>
      [] x.ty = "float" ->
           LET t == Abs(x.n) * (10 \div x.d)
           IN  (IF x.n < 0 THEN <<"-">> ELSE <<>>)
               \o Decimal(t \div 10) \o <<".", DigitChar(t % 10)>>

\* "    %" + repr(marshal.dumps(x)) for a nested code object: the bytes
\* literal, of which the model keeps the first byte
Blob == <<" ", " ", " ", " ", "%", "b", "'", "\\", "x", "e", "3", "'">>

Indent == <<" ", " ", " ", " ">>

\* lines 97-103
UnparseConsts(consts) ==
    IF consts = <<>> THEN <<>>
    ELSE <<<<"C", "O", "N", "S", "T", "S", ":">>>>
         \o [k \in 1..Len(consts) |->
                IF consts[k].ty = "code" THEN Blob
                ELSE Indent \o repr(consts[k])]

\* lines 110-113
UnparseField(section, field) ==
    IF field = <<>> THEN <<>>
    ELSE <<section \o <<":">>>> \o [k \in 1..Len(field) |-> Indent \o field[k]]

\* opcode.opname[op]: "<op>" for an opcode that has no name
opname_or_number(op) ==
    IF \E m \in DOMAIN opmap : opmap[m] = op THEN opname(op)
    ELSE <<"<">> \o Decimal(op) \o <<">">>

\* lines 117-121: the line of instruction k (1-based) of a code string
UnparseInstr(co_code, k) ==
    LET op == co_code[2 * k - 1]
        arg == co_code[2 * k]
    IN  IF op >= HAVE_ARGUMENT \/ arg # 0
        THEN opname_or_number(op) \o <<" ", "%">> \o str(arg)
        ELSE opname_or_number(op)

unparse(c) ==
    UnparseConsts(c.co_consts)
    \o UnparseField(<<"N", "A", "M", "E", "S">>, c.co_names)
    \o UnparseField(<<"V", "A", "R", "N", "A", "M", "E", "S">>, c.co_varnames)
    \o UnparseField(<<"F", "R", "E", "E", "V", "A", "R", "S">>, c.co_freevars)
    \o UnparseField(<<"C", "E", "L", "L", "V", "A", "R", "S">>, c.co_cellvars)
    \o <<<<"F", "L", "A", "G", "S", ":", " ", "0", "b">> \o Binary(c.co_flags),
         <<"S", "T", "A", "C", "K", "S", "I", "Z", "E", ":", " ">> \o str(c.co_stacksize),
         <<>>>>
    \o [k \in 1..(Len(c.co_code) \div 2) |-> UnparseInstr(c.co_code, k)]

(***************************************************************************)
(* read_pyc (lines 47-65) and the container branch of Editor.__init__      *)
(* (lines 207-218).  A file is a sequence of bytes.                        *)
(***************************************************************************)
\* importlib.util.MAGIC_NUMBER of CPython 3.10: 3439 little-endian, "\r\n"
MAGIC_NUMBER == <<111, 13, 13, 10>>

\* int.from_bytes(b, "little")
RECURSIVE from_bytes(_)
from_bytes(b) ==
    IF b = <<>> THEN 0 ELSE b[1] + 256 * from_bytes(From(b, 2))

\* flags & ~0b11
OtherBits(flags) == (flags \div 4) * 4

\* a code unit with no content, for the states that hold none
NoCode ==
    [co_code |-> <<>>, co_consts |-> <<>>, co_names |-> <<>>,
     co_varnames |-> <<>>, co_freevars |-> <<>>, co_cellvars |-> <<>>,
     co_flags |-> 0, co_stacksize |-> 0]

\* the code unit the model's containers hold: LOAD_CONST 0, RETURN_VALUE
SampleCode ==
    [NoCode EXCEPT !.co_code = <<100, 0, 83, 0>>,
                   !.co_consts = <<Value("none", 0, 1, <<>>, 0)>>,
                   !.co_flags = 64, !.co_stacksize = 1]

\* marshal.loads, by the type byte the payload starts with: 0xe3 a code
\* object, 0xe9 an int, "0" the NULL object; no bytes raise EOFError
loads(payload) ==
    IF payload = <<>>
    THEN [exc |-> "EOFError: EOF read where object expected", ty |-> "none"]
    ELSE IF payload[1] = 227 THEN [exc |-> "none", ty |-> "code"]
    ELSE IF payload[1] = 233 THEN [exc |-> "none", ty |-> "int"]
    ELSE [exc |-> "TypeError: NULL object in marshal data for object",
          ty |-> "none"]

\* read_pyc raising e
Raised(e) == [exc |-> e, header |-> <<>>, co |-> NoCode]

\* lines 61-65 on the unmarshalled object obj
Loaded(header, obj) ==
    IF obj.exc # "none" THEN Raised(obj.exc)
    ELSE IF obj.ty # "code" THEN Raised("RuntimeError: Can't open %s: whar")
    ELSE [exc |-> "none", header |-> header, co |-> SampleCode]

\* lines 50-65 on the 16 bytes read first.  Line 59 applies % to a format of
\* two fields and the one value f.name, which raises TypeError before the
\* RuntimeError is made.
Checked(f, frc, header) ==
    IF Len(header) < 16 THEN Raised("EOFError")
    ELSE IF Sub(header, 1, 4) # MAGIC_NUMBER /\ ~frc
    THEN Raised("RuntimeError: Can't open f: wrong python version?")
    ELSE IF OtherBits(from_bytes(Sub(header, 5, 8))) # 0 /\ ~frc
    THEN Raised("TypeError: not enough arguments for format string")
    ELSE Loaded(header, loads(From(f, 17)))

\* read_pyc(f, force): the exception it raises, or the header and code unit it
\* returns
read_pyc(f, frc) == Checked(f, frc, Sub(f, 1, 16))

HexDigits ==
    <<"0", "1", "2", "3", "4", "5", "6", "7", "8", "9", "a", "b", "c", "d", "e", "f">>

\* "%x" % n
RECURSIVE Hex(_)
Hex(n) ==
    IF n < 16 THEN <<HexDigits[n + 1]>>
    ELSE Append(Hex(n \div 16), HexDigits[(n % 16) + 1])

\* lines 214-218: "pyc(MAGIC=%i%s:F=%x)" % (...)
Format(header) ==
    <<"p", "y", "c", "(", "M", "A", "G", "I", "C", "=">>
    \o Decimal(from_bytes(Sub(header, 1, 2)))
    \o (IF Sub(header, 1, 4) # MAGIC_NUMBER
        THEN <<"[", "H", "E", "X", "E", "D", "!", "]">> ELSE <<>>)
    \o <<":", "F", "=">> \o Hex(from_bytes(Sub(header, 5, 8))) \o <<")">>

\* bytes.decode() succeeds: of the bytes the model's files hold, those below
\* 128 are ASCII and no other starts or continues a valid UTF-8 sequence
decodes(f) == \A k \in 1..Len(f) : f[k] < 128

(***************************************************************************)
(* The files and inputs of the model.                                      *)
(***************************************************************************)
\* the instruction lines of the text files the editor is opened on
BodyLines ==
    {<<"N", "O", "P">>,
     <<"L", "O", "A", "D", "_", "C", "O", "N", "S", "T", " ", "@", "1">>,
     <<"L", "O", "A", "D", "_", "C", "O", "N", "S", "T", " ", "@", "T", "r", "u", "e">>,
     <<"L", "O", "A", "D", "_", "C", "O", "N", "S", "T", " ", "@", "[", "1", "]">>,
     <<"L", "O", "A", "D", "_", "C", "O", "N", "S", "T", " ", "@", "(", "1">>,
     <<"L", "O", "A", "D", "_", "F", "A", "S", "T", " ", "@", "n">>,
     <<"L", "O", "A", "D", "_", "F", "A", "S", "T", " ", "@", "m">>,
     <<"L", "O", "A", "D", "_", "N", "A", "M", "E", " ", "@", "n">>,
     <<"L", "O", "A", "D", "_", "D", "E", "R", "E", "F", " ", "@", "n">>,
     <<"J", "U", "M", "P", "_", "A", "B", "S", "O", "L", "U", "T", "E", " ", "%", "1">>,
     <<"N", "O", "P", " ", "@", "1", ".", "0">>,
     <<"N", "O", "P", " ", "%", "2", "5", "6">>,
     <<"N", "O", "P", " ", "@", "-", "1">>,
     <<"N", "O", "P", " ", "?">>,
     <<>>,
     <<"F", "O", "O">>}

\* the declaration headers of those files
Headers ==
    {<<>>,
     <<<<"C", "O", "N", "S", "T", "S", ":">>,
       <<" ", " ", " ", " ", "1">>,
       <<" ", " ", " ", " ", "T", "r", "u", "e">>,
       <<" ", " ", " ", " ", "1">>,
       <<" ", " ", " ", " ", "%", "b", "'", "\\", "x", "e", "3", "'">>,
       <<" ", " ", " ", " ", "%", "b", "'", "\\", "x", "e", "3", "'">>>>,
     <<<<"N", "A", "M", "E", "S", ":">>,
       <<" ", " ", " ", " ", "n">>,
       <<"V", "A", "R", "N", "A", "M", "E", "S", ":">>,
       <<" ", " ", " ", " ", "n">>,
       <<" ", " ", " ", " ", "m">>>>,
     <<<<"F", "L", "A", "G", "S", ":", " ", "0", "b", "1", "1">>,
       <<"N", "A", "M", "E", "S", ":">>,
       <<" ", " ", " ", " ", "n">>>>}

\* the built-in example (lines 175-180)
Scratch ==
    <<<<"L", "O", "A", "D", "_", "F", "A", "S", "T", " ", "@", "n">>,
      <<"L", "O", "A", "D", "_", "C", "O", "N", "S", "T", " ", "@", ".", "5">>,
      <<"I", "N", "P", "L", "A", "C", "E", "_", "P", "O", "W", "E", "R">>,
      <<"R", "E", "T", "U", "R", "N", "_", "V", "A", "L", "U", "E">>>>

\* the buffers an editing session starts from: the example, the one empty
\* line of a file that does not exist (line 188), and two text files
EditFiles ==
    {Scratch,
     <<<<>>>>,
     <<<<"N", "A", "M", "E", "S", ":">>,
       <<" ", " ", " ", " ", "n">>,
       <<"L", "O", "A", "D", "_", "N", "A", "M", "E", " ", "@", "n">>>>,
     <<<<"N", "O", "P">>,
       <<"J", "U", "M", "P", "_", "A", "B", "S", "O", "L", "U", "T", "E", " ", "%", "1">>>>}

\* the printable keys typed in a session
KeyChars == {"n", "1"}

\* the screen height getmaxyx reports when the editor starts, and the
\* heights it reports after a resize
StartRows == {24}
ScreenRows == {4, 24}

\* the sequences over S of length at most n
SeqsUpTo(S, n) == UNION {[1..k -> S] : k \in 0..n}

\* the (opcode, operand) pairs of the compiled code units; opcode 0 has no
\* mnemonic, opname gives "<0>" for it
UnitInstrs == {<<9, 0>>, <<9, 1>>, <<100, 0>>, <<100, 1>>, <<83, 0>>, <<0, 0>>}

\* the constants of the compiled code units: 1, -1, -2, None, 0.5 and a
\* nested code object
UnitConsts ==
    {Value("int", 1, 1, <<>>, 0), Value("int", -1, 1, <<>>, 0),
     Value("int", -2, 1, <<>>, 0), Value("none", 0, 1, <<>>, 0),
     Value("float", 1, 2, <<>>, 0), Value("code", 0, 1, <<>>, 0)}

\* co_code of a sequence of (opcode, operand) pairs
RECURSIVE Flat(_)
Flat(is) == IF is = <<>> THEN <<>> ELSE is[1] \o Flat(Tail(is))

\* the compiler keeps one entry per constant, and a LOAD_CONST operand indexes
\* co_consts
WellFormed(u) ==
    /\ \A i, j \in 1..Len(u.co_consts) : u.co_consts[i] = u.co_consts[j] => i = j
    /\ \A k \in 1..(Len(u.co_code) \div 2) :
          u.co_code[2 * k - 1] \in hasconst => u.co_code[2 * k] < Len(u.co_consts)

\* the code units compile() returns
CodeUnits ==
    {u \in {[co_code |-> Flat(is), co_consts |-> cs, co_names |-> ns,
             co_varnames |-> vs, co_freevars |-> <<>>, co_cellvars |-> <<>>,
             co_flags |-> 67, co_stacksize |-> 1] :
                is \in SeqsUpTo(UnitInstrs, MaxCode),
                cs \in SeqsUpTo(UnitConsts, MaxConsts),
                ns \in {<<>>, <<<<"n">>>>},
                vs \in {<<>>, <<<<"n">>, <<"m">>>>}} : WellFormed(u)}

\* the 16 header bytes of the containers: the expected magic or another, a
\* flags word, and a timestamp and size that hold a byte no text has
PycHeaders ==
    {m \o f \o <<255, 0, 0, 0, 0, 0, 0, 0>> :
        m \in {MAGIC_NUMBER, <<110, 13, 13, 10>>},
        f \in {<<0, 0, 0, 0>>, <<1, 0, 0, 0>>, <<3, 0, 0, 0>>, <<4, 0, 0, 0>>,
               <<0, 1, 0, 0>>}}

\* the payloads after the header: none, a code object, an int, a NULL object
Payloads == {<<>>, <<227>>, <<233>>, <<48>>}

\* the containers: whole ones and ones cut inside the header
PycFiles ==
    {h \o p : h \in PycHeaders, p \in Payloads}
    \cup {Sub(h, 1, n) : h \in PycHeaders, n \in 9..15}

(***************************************************************************)
(* The state machine.  pc: "init" in Editor.__init__ before line 223,      *)
(* "constructed" after it, "loop" in the loop of _main, "crashed" after an *)
(* exception, "exit" after SystemExit; "compiled" and "undecodable" before *)
(* a code unit is disassembled and a container read.                       *)
(***************************************************************************)
Fresh ==
    /\ parsed = <<>> /\ code = EmptyCode /\ lines = <<>> /\ offsets = <<>>
    /\ cy = 0 /\ cx = 0 /\ vy = 0 /\ my = 0
    /\ marks = <<>> /\ exc = "none" /\ nkeys = 0 /\ prev = EmptyCode

\* the editor opened on a text file (lines 196-205), before line 223:
\* content.split("\n") (line 204) is a header and up to MaxBody instruction
\* lines, and never the empty list
Init ==
    /\ pc = "init"
    /\ \E h \in Headers : \E k \in 0..MaxBody : \E b \in [1..k -> BodyLines] :
          src = h \o b
    /\ src # <<>>
    /\ format = <<"p", "y", "l", "l">>
    /\ co = NoCode /\ file = <<>> /\ force = FALSE
    /\ Fresh

\* the editor opened with --compile, compile() having returned co (line 200)
InitRT ==
    /\ pc = "compiled"
    /\ co \in CodeUnits
    /\ src = <<>>
    /\ format = <<>>
    /\ file = <<>> /\ force = FALSE
    /\ Fresh

\* the editor opened on a file that does not decode as text (line 207)
InitPyc ==
    /\ pc = "undecodable"
    /\ file \in {f \in PycFiles : ~decodes(f)}
    /\ force \in BOOLEAN
    /\ src = <<>>
    /\ format = <<>>
    /\ co = NoCode
    /\ Fresh

\* the editor at the start of a session, before line 223
InitEdit ==
    /\ pc = "init"
    /\ src \in EditFiles
    /\ format = IF src = Scratch THEN <<"n", "o", "n", "e">>
                ELSE <<"p", "y", "l", "l">>
    /\ co = NoCode /\ file = <<>> /\ force = FALSE
    /\ Fresh

\* self.update_code() having run with result r: the state it leaves
Pass(r) ==
    /\ parsed' = r.parsed
    /\ code' = r.code
    /\ lines' = r.lines
    /\ offsets' = r.offsets
    /\ prev' = code

\* the constructor ends with result r of update_code
Constructed(r) ==
    /\ Pass(r)
    /\ exc' = r.exc
    /\ pc' = IF r.exc = "none" THEN "constructed" ELSE "crashed"

\* line 223: the pass that ends the constructor
Construct ==
    /\ pc = "init"
    /\ Constructed(update_code(code, src))
    /\ UNCHANGED <<src, cy, cx, vy, my, marks, nkeys, co, file, force, format>>

\* _main up to its loop (lines 396-398): on_resize and its redraw
Start ==
    /\ pc = "constructed"
    /\ \E rows \in StartRows : my' = rows
    /\ LET d == redraw(parsed, offsets, code, lines)
       IN  /\ marks' = d.marks
           /\ exc' = d.exc
           /\ pc' = IF d.exc = "none" THEN "loop" ELSE "crashed"
    /\ UNCHANGED <<src, parsed, code, lines, offsets, cy, cx, vy, nkeys, prev,
                   co, file, force, format>>

Key == pc = "loop" /\ nkeys < MaxKeys /\ nkeys' = nkeys + 1

\* lines 580-586 after update_code (result r) and redraw (result d) of an
\* editing key; an exception of either leaves on_ch before them
Redrawn(e, r, d, ok) ==
    /\ marks' = IF r.exc = "none" THEN d.marks ELSE marks
    /\ exc' = IF r.exc # "none" THEN r.exc ELSE d.exc
    /\ pc' = IF ok THEN "loop" ELSE "crashed"
    /\ cy' = IF ok THEN e.cy ELSE cy
    /\ cx' = IF ok THEN e.cx ELSE cx
    /\ vy' = IF ok THEN Scroll(e.cy, vy, my) ELSE vy

Drawn(e, r, d) == Redrawn(e, r, d, r.exc = "none" /\ d.exc = "none")

Reassembled(e, r) ==
    /\ Pass(r)
    /\ Drawn(e, r, redraw(r.parsed, r.offsets, r.code, r.lines))

\* an editing key (lines 524-551): the buffer is changed in place, then
\* update_code and redraw run
Edited(e) ==
    /\ src' = e.src
    /\ Reassembled(e, update_code(code, e.src))
    /\ UNCHANGED <<my, co, file, force, format>>

\* a key that only moves the cursor (lines 552-573, 580-586)
Moved(m) ==
    /\ cy' = m.cy
    /\ cx' = m.cx
    /\ vy' = Scroll(m.cy, vy, my)
    /\ UNCHANGED <<pc, src, parsed, code, lines, offsets, my, marks, exc, prev,
                   co, file, force, format>>

KeyPrintable == Key /\ \E c \in KeyChars : Edited(Printable(src, cy, cx, c))

\* line 540: backspace at the start of the buffer returns at once
KeyBackspace ==
    /\ Key
    /\ IF cx = 0 /\ cy = 0
       THEN UNCHANGED <<pc, src, parsed, code, lines, offsets, cy, cx, vy, my,
                        marks, exc, prev, co, file, force, format>>
       ELSE Edited(Backspace(src, cy, cx))

KeyNewline == Key /\ Edited(Newline(src, cy, cx))
KeyLeft == Key /\ Moved(Left(src, cy, cx))
KeyRight == Key /\ Moved(Right(src, cy, cx))
KeyUp == Key /\ Moved(Up(src, cy, cx))
KeyDown == Key /\ Moved(Down(src, cy, cx))

\* KEY_RESIZE (lines 402-404): on_resize and its redraw, then on_ch, which
\* finds no branch for the key and goes on to lines 580-586
KeyResize ==
    /\ Key
    /\ \E rows \in ScreenRows : my' = rows
    /\ LET d == redraw(parsed, offsets, code, lines)
       IN  /\ marks' = d.marks
           /\ exc' = d.exc
           /\ pc' = IF d.exc = "none" THEN "loop" ELSE "crashed"
           /\ vy' = IF d.exc = "none" THEN Scroll(cy, vy, my') ELSE vy
    /\ UNCHANGED <<src, parsed, code, lines, offsets, cy, cx, prev, co, file,
                   force, format>>

\* ctrl-c (line 578): SystemExit
KeyQuit ==
    /\ Key
    /\ pc' = "exit"
    /\ UNCHANGED <<src, parsed, code, lines, offsets, cy, cx, vy, my, marks, exc,
                   prev, co, file, force, format>>

on_ch ==
    \/ KeyPrintable \/ KeyBackspace \/ KeyNewline
    \/ KeyLeft \/ KeyRight \/ KeyUp \/ KeyDown
    \/ KeyResize \/ KeyQuit

\* lines 200-202: the buffer is the disassembly of the compiled unit
Disassemble ==
    /\ pc = "compiled"
    /\ src' = unparse(co)
    /\ format' = <<"p", "y", "l", "l", "(", "g", "e", "n", "e", "r", "a", "t",
                   "e", "d", ")">>
    /\ pc' = "init"
    /\ UNCHANGED <<parsed, code, lines, offsets, cy, cx, vy, my, marks, exc,
                   nkeys, prev, co, file, force>>

\* lines 208-218 with result r of read_pyc: its exception leaves the
\* constructor
Opened(r) ==
    /\ exc' = r.exc
    /\ co' = r.co
    /\ src' = IF r.exc = "none" THEN unparse(r.co) ELSE src
    /\ format' = IF r.exc = "none" THEN Format(r.header) ELSE format
    /\ pc' = IF r.exc = "none" THEN "init" ELSE "crashed"

\* lines 207-218: the file did not decode as text
ReadPyc ==
    /\ pc = "undecodable"
    /\ Opened(read_pyc(file, force))
    /\ UNCHANGED <<parsed, code, lines, offsets, cy, cx, vy, my, marks, nkeys,
                   prev, file, force>>

Next == Construct \/ Start

Spec == Init /\ [][Next]_vars

NextEdit == Construct \/ Start \/ on_ch

SpecEdit == InitEdit /\ [][NextEdit]_vars

NextRT == Disassemble \/ Construct \/ Start

SpecRT == InitRT /\ [][NextRT]_vars

NextPyc == ReadPyc \/ Construct \/ Start

SpecPyc == InitPyc /\ [][NextPyc]_vars

(***************************************************************************)
(* Properties.  A pass has run in every state but the ones before line     *)
(* 223; of the exceptions the model knows, update_code raises TypeError    *)
(* only and redraw KeyError only.                                          *)
(***************************************************************************)
AfterPass == pc \in {"constructed", "loop", "crashed", "exit"}

PassRaised == exc = "TypeError"

\* the lines (0-based) the body loop of the last pass went over
BodyLineNumbers == ExtractSections(parsed, 0, <<>>).i..(Len(parsed) - 1)

\* line l starts with a mnemonic of the opcode table
IsInstruction(l) ==
    /\ parsed[l + 1] # <<>>
    /\ parsed[l + 1][1].type = "name"
    /\ strip(parsed[l + 1][1].value) \in DOMAIN opmap

\* the opcode of instruction line l
OpcodeOf(l) == opmap[strip(parsed[l + 1][1].value)]

\* the operand of instruction line l as the pass resolved it
OperandOf(l) == Resolve(code, OpcodeOf(l), parsed[l + 1], l).arg

\* the operand of instruction line l is an integer in [0,255]
ByteOperand(l) ==
    /\ OperandOf(l).ty \in {"int", "bool"}
    /\ OperandOf(l).n \in 0..255

\* the number of (opcode, operand) pairs of the stream
NumInstrs == Len(code.bytecode) \div 2

\* a and b are constants of the same type and value
SameValue(a, b) == [a EXCEPT !.oid = 0] = [b EXCEPT !.oid = 0]

\* C1: round trip.  For every code unit whose instructions all have
\* mnemonics the tokenizer accepts, the pass over the disassembly of the unit
\* raises nothing and leaves the unit's (opcode, operand) stream and its
\* constants, names, varnames and freevars pools, entry by entry.  (The
\* pass stores no flags and no stacksize anywhere.)
C1_RoundTrip ==
    (/\ AfterPass
     /\ \A k \in 1..(Len(co.co_code) \div 2) :
           /\ \E m \in DOMAIN opmap : opmap[m] = co.co_code[2 * k - 1]
           /\ NameRe(opname(co.co_code[2 * k - 1]), 1)
                  = Len(opname(co.co_code[2 * k - 1])))
    => /\ ~PassRaised
       /\ code.bytecode = co.co_code
       /\ Len(code.constants) = Len(co.co_consts)
       /\ \A k \in 1..Len(co.co_consts) :
             k <= Len(code.constants)
             /\ SameValue(code.constants[k], co.co_consts[k])
       /\ code.names = co.co_names
       /\ code.varnames = co.co_varnames
       /\ code.freevars = co.co_freevars

\* C2: operand failure policy.  The pass raises nothing; an instruction line
\* is in the index exactly if its operand resolved to an integer in [0,255];
\* every operand of the stream is in [0,255]; and the stream has one
\* instruction for each such line.
C2_OperandFailurePolicy ==
    AfterPass
    => /\ ~PassRaised
       /\ \A l \in BodyLineNumbers :
             IsInstruction(l) => (l \in DOMAIN offsets <=> ByteOperand(l))
       /\ \A k \in 1..NumInstrs : code.bytecode[2 * k] \in 0..255
       /\ NumInstrs
             = Cardinality({l \in BodyLineNumbers :
                               IsInstruction(l) /\ ByteOperand(l)})

\* the entries declared for section sec in the header region: p from line i
\* (1-based) on, cur being the section the line before belongs to
RECURSIVE DeclaredEntries(_, _, _, _)

EntriesOfLine(tokens, sec, cur) ==
    IF tokens[1].type = "field"
    THEN IF cur = sec THEN <<lstrip(tokens[1].value)>> ELSE <<>>
    ELSE IF removesuffix(tokens[1].value) = sec /\ Len(tokens) > 2
    THEN <<lstrip(tokens[3].value)>>
    ELSE <<>>

DeclaredEntries(p, i, sec, cur) ==
    IF i > Len(p) \/ p[i] = <<>> \/ p[i][1].type \notin {"section", "field"}
    THEN <<>>
    ELSE EntriesOfLine(p[i], sec, cur)
         \o DeclaredEntries(p, i + 1, sec,
                            IF p[i][1].type = "section"
                            THEN removesuffix(p[i][1].value) ELSE cur)

\* the section that declares the entries of a symbol pool
SectionOf(scope) ==
    CASE scope = "names" -> <<"N", "A", "M", "E", "S">>
      [] scope = "varnames" -> <<"V", "A", "R", "N", "A", "M", "E", "S">>
      [] scope = "freevars" -> <<"F", "R", "E", "E", "V", "A", "R", "S">>

Scopes == {"names", "varnames", "freevars"}

NoRepeat(q) == \A i, j \in 1..Len(q) : q[i] = q[j] => i = j

\* C3: declared-section merge.  After a pass that raised nothing, every
\* entry declared for NAMES, VARNAMES or FREEVARS in the header region is in
\* its pool, every declared CONSTS entry that is a literal is in the
\* constant pool, and no symbol pool holds the same text twice.
C3_DeclaredSectionMerge ==
    (AfterPass /\ ~PassRaised)
    => /\ \A scope \in Scopes :
             /\ NoRepeat(code[scope])
             /\ \A e \in Range(DeclaredEntries(parsed, 1, SectionOf(scope), <<>>)) :
                   strip(e) \in Range(code[scope])
       /\ \A e \in Range(DeclaredEntries(parsed, 1, <<"C", "O", "N", "S", "T", "S">>, <<>>)) :
             evaluate(e, 0).ty # "error"
             => \E k \in 1..Len(code.constants) :
                   SameValue(code.constants[k], evaluate(e, 0))

\* a and b are the same object, or have the same type and an equal hash
SameConst(a, b) ==
    \/ a.oid = b.oid
    \/ a.ty = b.ty /\ a.ty # "list" /\ hash(a) = hash(b)

\* instruction line l has an "@" operand
HasAtOperand(l) ==
    /\ Len(parsed[l + 1]) >= 3
    /\ parsed[l + 1][3].type = "const"
    /\ parsed[l + 1][2].value[1] = "@"

\* the assembled lines that refer to a constant
ConstLines ==
    {l \in DOMAIN offsets : OpcodeOf(l) \in hasconst /\ HasAtOperand(l)}

\* every reference to a constant resolved to an entry that is the constant
\* referred to
ConstsResolved ==
    \A l \in ConstLines :
        /\ code.bytecode[2 * offsets[l] + 2] < Len(code.constants)
        /\ SameConst(evaluate(parsed[l + 1][3].value, l + 1),
                     code.constants[code.bytecode[2 * offsets[l] + 2] + 1])

SymbolLines(scope) ==
    {l \in BodyLineNumbers :
        IsInstruction(l) /\ get_scope(OpcodeOf(l)) = scope /\ HasAtOperand(l)}

\* the symbol line l refers to
SymbolOf(l) == strip(parsed[l + 1][3].value)

\* the lines of L that refer to a symbol no earlier line of L refers to
FirstRefs(L) == {l \in L : \A m \in L : m < l => SymbolOf(m) # SymbolOf(l)}

\* the first line of L that refers to the symbol of line l
FirstRef(L, l) == CHOOSE m \in FirstRefs(L) : SymbolOf(m) = SymbolOf(l)

\* the number of lines of L before line l
Rank(L, l) == Cardinality({m \in L : m < l})

\* the pool of scope after a pass whose symbol lines are L, F being the
\* first references among them and declared the entries the header declares
\* for the pool
Registered(scope, L, F, declared) ==
    /\ Len(code[scope]) = Cardinality(F) + Len(declared)
    /\ \A l \in L :
          /\ l \in DOMAIN offsets
          /\ code.bytecode[2 * offsets[l] + 2] = Rank(F, FirstRef(L, l))
          /\ code[scope][code.bytecode[2 * offsets[l] + 2] + 1] = SymbolOf(l)

RegisteredFirst(scope, L, declared) ==
    Registered(scope, L, FirstRefs(L), declared)

\* C5: symbol auto-registration.  After a pass that raised nothing, each
\* symbol pool starts with the symbols the "@" operands of its opcode class
\* refer to, in the order of their first references, each once, and grows
\* by nothing else but the entries the header declares for it; every such
\* line is assembled, and its operand is the index of its symbol there, the
\* same for every reference to the same text.
C5_SymbolAutoRegistration ==
    (AfterPass /\ ~PassRaised)
    => \A scope \in Scopes :
          RegisteredFirst(scope, SymbolLines(scope),
                          Section(ExtractSections(parsed, 0, <<>>).sections,
                                  SectionOf(scope)))

\* a pass has registered two symbols of one pool in the order of their
\* first references and resolved a second reference to the first of them
C5_Witness ==
    /\ pc = "constructed"
    /\ exc = "none"
    /\ \E scope \in Scopes :
          /\ Cardinality(SymbolLines(scope)) = 3
          /\ Cardinality(FirstRefs(SymbolLines(scope))) = 2
          /\ \E l, m \in SymbolLines(scope) :
                l < m /\ SymbolOf(l) = SymbolOf(m)
                /\ code.bytecode[2 * offsets[m] + 2] = 0

\* the assembled jump-class instructions
JumpLines == {l \in DOMAIN offsets : code.bytecode[2 * offsets[l] + 1] \in hasjabs}

\* the operand of assembled line l
StoredOperand(l) == code.bytecode[2 * offsets[l] + 2]

\* C6: unresolved jump display.  redraw raises nothing, and it has drawn the
\* target markers of the jumps whose operand is an instruction index of the
\* index and no other.
C6_UnresolvedJumpDisplay ==
    (pc = "loop" \/ (pc = "crashed" /\ ~PassRaised))
    => /\ exc = "none"
       /\ Range(marks)
             = {<<lines[StoredOperand(l)], offsets[l]>> :
                   l \in {j \in JumpLines : StoredOperand(j) \in DOMAIN lines}}

\* t occurs in s
Contains(s, t) == \E k \in 0..(Len(s) - Len(t)) : Sub(s, k + 1, k + Len(t)) = t

\* C7: container header validation.  A file of fewer than 16 bytes fails
\* with the truncation error in either mode; in strict mode another magic
\* fails with the magic-mismatch error and, the magic being the expected
\* one, a flags word with a bit set other than the low 2 fails with the
\* unsupported-flags error; in forced mode neither check fails the load, and
\* the format descriptor of a loaded file shows "[HEXED!]" exactly if the
\* magic is not the expected one.
C7_HeaderValidation ==
    pc # "undecodable"
    => /\ Len(file) < 16 => exc = "EOFError"
       /\ (Len(file) >= 16 /\ ~force /\ Sub(file, 1, 4) # MAGIC_NUMBER)
          => exc = "RuntimeError: Can't open f: wrong python version?"
       /\ (/\ Len(file) >= 16 /\ ~force /\ Sub(file, 1, 4) = MAGIC_NUMBER
           /\ OtherBits(from_bytes(Sub(file, 5, 8))) # 0)
          => exc = "RuntimeError: Can't open f: unknown flags"
       /\ (Len(file) >= 16 /\ force)
          => /\ exc \notin {"RuntimeError: Can't open f: wrong python version?",
                            "RuntimeError: Can't open f: unknown flags",
                            "TypeError: not enough arguments for format string"}
             /\ exc = "none"
                => (Contains(format, <<"[", "H", "E", "X", "E", "D", "!", "]">>)
                    <=> Sub(file, 1, 4) # MAGIC_NUMBER)

\* the state is what the pass with result r leaves
Leaves(r) ==
    /\ parsed = r.parsed
    /\ code = r.code
    /\ lines = r.lines
    /\ offsets = r.offsets

\* C8: no hidden state.  What a pass leaves - the parsed lines, the stream,
\* the four pools and the two mappings - is what the pass of an editor that
\* has run none before leaves on the same buffer, and what one more pass on
\* the unchanged buffer leaves.
C8_NoHiddenState ==
    AfterPass
    => /\ Leaves(update_code(EmptyCode, src))
       /\ Leaves(update_code(code, src))

\* a key has been handled by a pass over a buffer that an earlier pass had
\* assembled to something else
C8_Witness ==
    /\ pc = "loop"
    /\ nkeys > 0
    /\ prev # EmptyCode
    /\ prev # code
    /\ code.names # <<>>

\* line l has no token or an unknown token
Excluded(l) ==
    \/ parsed[l + 1] = <<>>
    \/ \E k \in 1..Len(parsed[l + 1]) : parsed[l + 1][k].type = "unknown"

\* C9: unknown-token exclusion.  A body line that has no token or an unknown
\* token is in neither direction of the index, so it has no instruction in
\* the stream.
C9_UnknownTokenExclusion ==
    AfterPass
    => \A l \in BodyLineNumbers :
          Excluded(l) => (l \notin DOMAIN offsets /\ l \notin Range(lines))

\* C10: index consistency.  After a pass, raised or not, lines is defined on
\* exactly 0..n-1 for the n instructions of the stream, lines and offsets
\* are inverse to each other, the source lines increase strictly with the
\* instruction index, and every indexed line is a body line of the buffer
\* that starts with a mnemonic of the opcode table.
C10_IndexConsistency ==
    AfterPass
    => /\ DOMAIN lines = 0..(NumInstrs - 1)
       /\ \A k \in DOMAIN lines :
             lines[k] \in DOMAIN offsets /\ offsets[lines[k]] = k
       /\ \A l \in DOMAIN offsets :
             offsets[l] \in DOMAIN lines /\ lines[offsets[l]] = l
       /\ \A j, k \in DOMAIN lines : j < k => lines[j] < lines[k]
       /\ \A l \in DOMAIN offsets :
             l \in BodyLineNumbers /\ l < Len(src) /\ IsInstruction(l)

\* a pass has indexed two instructions that lie after a header and have a
\* line between them that is not assembled
C10_Witness ==
    /\ pc = "constructed"
    /\ NumInstrs = 2
    /\ lines[0] > 0
    /\ lines[1] > lines[0] + 1

\* the cursor is on a line of the buffer and within it or at its end
CursorInBuffer ==
    /\ cy \in 0..(Len(src) - 1)
    /\ cx \in 0..Len(src[cy + 1])

\* C11: cursor clamping.  From the initial editor state on, before and
\* after every key on_ch has handled, the buffer has at least one line, the
\* cursor row is a line of the buffer, the cursor column is within that line
\* or at its end, and the viewport origin is not negative.  (A key whose
\* pass or redraw raises is not handled: the exception ends the program
\* before lines 585-586.)
C11_CursorClamping ==
    pc # "crashed"
    => /\ Len(src) >= 1
       /\ CursorInBuffer
       /\ vy >= 0

\* keys have left the cursor at the end of a line that is not the last and
\* is shorter than the line below it, the viewport having scrolled
C11_Witness ==
    /\ pc = "loop"
    /\ nkeys > 1
    /\ cy < Len(src) - 1
    /\ cx = Len(src[cy + 1])
    /\ cx > 0
    /\ Len(src[cy + 2]) > cx
    /\ vy > 0

====
